---- MODULE Spec2Model ----
(***************************************************************************)
(* Model of the ValidadorDocumentos session of src/static/script.js: the   *)
(* page object that loads a reference spreadsheet, submits a batch of      *)
(* document URLs to /api/processar-documentos, shows the results and       *)
(* exports them as a report.  Every event handler is one action; an async  *)
(* handler is cut at its awaits, so the events that arrive while a request *)
(* is in flight interleave with it exactly as the browser allows.          *)
(*                                                                         *)
(* What a handler writes and never reads back is held as the output of the *)
(* last step: the alert raised, the report built, the entries appended to  *)
(* the processing log (each run in flight also keeps the entries it has    *)
(* written so far).  #status-planilha and the progress bar width are not   *)
(* held.  The service behind /api/processar-documentos is not part of      *)
(* script.js; its answers follow the Document Processor and Batch          *)
(* Orchestrator of the specification.                                      *)
(***************************************************************************)
EXTENDS Integers, Sequences, FiniteSets, TLC

\* ------------------------------------------------------------------ bounds
\* Runs accepted by iniciarValidacao.
MaxRuns == 2
\* Spreadsheet load requests sent by carregarPlanilha.
MaxLoads == 2

\* ------------------------------------------------------- program constants
\* this.planilhaData = null
Null == 0
\* if (documentUrls.length > 3)
MaxDocumentos == 3

\* alert(...) texts
AlertaVazio == "Por favor, insira pelo menos uma URL de documento"
AlertaMaximo == "Maximo de 3 documentos permitidos"
AlertaSemResultado == "Nenhum resultado para download"

\* The six keys of resultado.validacoes, in the order the card lists them.
Validacoes ==
    << "cnpj_validado_planilha", "razao_social_validada", "cnpj_ativo_receita",
       "representante_validado", "nome_especifico_validado", "data_validada" >>

ValidacoesSet == { Validacoes[i] : i \in 1..Len(Validacoes) }

Status == { "valido", "invalido", "erro" }

\* ------------------------------------------------------------ text inputs
\* Characters of the two text fields.  A text is a sequence of characters.
Whitespace == { " ", "\n" }
Separadores == { ",", "\n" }

\* Values typed into #document-urls: blank, separators only, one URL, three
\* URLs with padding, an empty piece and a line break, four URLs.
DocumentTexts ==
    { << >>,
      << " ", ",", " " >>,
      << "a" >>,
      << " ", "b", ",", "\n", "a", " ", ",", "c" >>,
      << "a", ",", "b", ",", "c", ",", "d" >> }

\* Values typed into #csv-url: blank, a URL with padding.
CsvTexts == { << >>, << "p", " " >> }

\* String.prototype.trim
RECURSIVE TrimLeft(_)
TrimLeft(s) ==
    IF s # << >> /\ Head(s) \in Whitespace THEN TrimLeft(Tail(s)) ELSE s

RECURSIVE TrimRight(_)
TrimRight(s) ==
    IF s # << >> /\ s[Len(s)] \in Whitespace
    THEN TrimRight(SubSeq(s, 1, Len(s) - 1))
    ELSE s

Trim(s) == TrimRight(TrimLeft(s))

\* text.split(/[,\n]/): the pieces between separators, empty pieces included.
RECURSIVE Split(_)
Split(s) ==
    IF \E i \in 1..Len(s) : s[i] \in Separadores
    THEN LET i == CHOOSE k \in 1..Len(s) :
                    /\ s[k] \in Separadores
                    /\ \A j \in 1..(k - 1) : s[j] \notin Separadores
         IN << SubSeq(s, 1, i - 1) >> \o Split(SubSeq(s, i + 1, Len(s)))
    ELSE << s >>

NaoVazio(url) == Len(url) > 0

\* parseDocumentUrls()
parseDocumentUrls(text) ==
    LET t == Trim(text)
    IN IF t = << >>
       THEN << >>
       ELSE LET pieces == Split(t)
                trimmed == [ i \in 1..Len(pieces) |-> Trim(pieces[i]) ]
            IN SelectSeq(trimmed, NaoVazio)

\* ------------------------------------------ the processing service (server)
\* Document Processor: process(locator, reference) -> DocumentResult, for a
\* document that meets the given outcome (see DesfechosLista).
process(url, desfecho) ==
    IF desfecho.falha
    THEN [ url |-> url, status |-> "erro", erro |-> "falha na extracao",
           validacoes |-> {} ]
    ELSE [ url |-> url,
           status |-> IF desfecho.flags = ValidacoesSet THEN "valido" ELSE "invalido",
           erro |-> "",
           validacoes |-> desfecho.flags ]

\* Batch Orchestrator: one result per locator, in submission order.
processarDocumentos(urls, desfechos) ==
    [ i \in 1..Len(urls) |-> process(urls[i], desfechos[i]) ]

\* What one document's processing can meet: the extraction adapter fails, or
\* it succeeds and the rule engine finds the given flags true.
DesfechosLista ==
    << [ falha |-> TRUE,  flags |-> {} ],
       [ falha |-> FALSE, flags |-> ValidacoesSet ],
       [ falha |-> FALSE, flags |-> ValidacoesSet \ { "data_validada" } ] >>

\* The outcome sequences of a batch of n documents the model draws from: the
\* outcomes rotate through DesfechosLista, starting at any of them.
DesfechosDe(n) ==
    { [ i \in 1..n |-> DesfechosLista[((i + k) % Len(DesfechosLista)) + 1] ] :
        k \in 1..Len(DesfechosLista) }

\* ------------------------------------------------- presentation and report
\* this.resultados.filter(r => r.status === s).length
Contar(rs, s) == Cardinality({ i \in 1..Len(rs) : rs[i].status = s })

\* criarItemValidacao with the two branches of its ternaries swapped.
criarItemValidacaoInvertido(label, status) ==
    [ label |-> label,
      icon  |-> IF status THEN "fa-times" ELSE "fa-check",
      text  |-> IF status THEN "Invalido" ELSE "Valido" ]

\* criarItemValidacao(label, status)
criarItemValidacao(label, status) ==
    [ label |-> label,
      icon  |-> IF status THEN "fa-check" ELSE "fa-times",
      text  |-> IF status THEN "Valido" ELSE "Invalido" ]

\* statusClass with a last branch that names no status class of the page.
statusClassPadraoErrado(resultado) ==
    IF resultado.status = "valido" THEN "valido"
    ELSE IF resultado.status = "invalido" THEN "invalido"
    ELSE "error"

\* statusClass of criarCardResultado
statusClass(resultado) ==
    IF resultado.status = "valido" THEN "valido"
    ELSE IF resultado.status = "invalido" THEN "invalido"
    ELSE "erro"

\* criarCardResultado() choosing the error block for every result that is not
\* valid.
criarCardResultadoErroSeNaoValido(resultado, numero) ==
    [ numero      |-> numero,
      statusClass |-> statusClass(resultado),
      url         |-> resultado.url,
      erro        |-> resultado.erro,
      itens       |-> IF resultado.status # "valido"
                      THEN << >>
                      ELSE [ k \in 1..Len(Validacoes) |->
                               criarItemValidacao(Validacoes[k],
                                   Validacoes[k] \in resultado.validacoes) ] ]

\* criarCardResultado(resultado, numero): the card's badge class, its number,
\* its URL line and its body: the error block when resultado.erro is truthy,
\* otherwise the six validation items.
criarCardResultado(resultado, numero) ==
    [ numero      |-> numero,
      statusClass |-> statusClass(resultado),
      url         |-> resultado.url,
      erro        |-> resultado.erro,
      itens       |-> IF resultado.erro # ""
                      THEN << >>
                      ELSE [ k \in 1..Len(Validacoes) |->
                               criarItemValidacao(Validacoes[k],
                                   Validacoes[k] \in resultado.validacoes) ] ]

\* exibirResultados() adding each card in front of the ones before it.
exibirResultadosInvertido(rs) ==
    [ stats |-> << Contar(rs, "valido"), Contar(rs, "invalido"), Contar(rs, "erro") >>,
      cards |-> [ i \in 1..Len(rs) |->
                    criarCardResultado(rs[Len(rs) + 1 - i], Len(rs) + 1 - i) ] ]

\* exibirResultados(): the statistics row, then one card per result.
exibirResultados(rs) ==
    [ stats |-> << Contar(rs, "valido"), Contar(rs, "invalido"), Contar(rs, "erro") >>,
      cards |-> [ i \in 1..Len(rs) |-> criarCardResultado(rs[i], i) ] ]

\* The relatorio object with erros filtered on a status no result carries.
RelatorioErrosTrocados(rs) ==
    [ total_documentos |-> Len(rs),
      validos          |-> Contar(rs, "valido"),
      invalidos        |-> Contar(rs, "invalido"),
      erros            |-> Contar(rs, "error"),
      resultados       |-> rs ]

\* The relatorio object of downloadRelatorio() (timestamp left out).
Relatorio(rs) ==
    [ total_documentos |-> Len(rs),
      validos          |-> Contar(rs, "valido"),
      invalidos        |-> Contar(rs, "invalido"),
      erros            |-> Contar(rs, "erro"),
      resultados       |-> rs ]

\* updateUI() disabling the button only when both conditions fail.
updateUIConjuncao(planilha, text) == (planilha = Null) /\ (Trim(text) = << >>)

\* updateUI(): the value it gives iniciarBtn.disabled.
updateUI(planilha, text) == (planilha = Null) \/ (Trim(text) = << >>)

\* addLog(message, type); run tags the entry with the run that wrote it.
addLog(lg, run, message, type) ==
    Append(lg, [ run |-> run, message |-> message, type |-> type ])

\* The log type updateProgress(percentage, message) passes to addLog.
TipoProgresso(percentage) == IF percentage = 100 THEN "success" ELSE "info"

\* ------------------------------------------------------------------- state
VARIABLES
    planilhaData,      \* this.planilhaData: Null or the dataset of a load
    resultados,        \* this.resultados
    csvUrl,            \* #csv-url value
    documentUrls,      \* #document-urls value
    iniciarDisabled,   \* #iniciar-validacao disabled
    iniciarLabel,      \* #iniciar-validacao innerHTML: "idle" or "processando"
    carregarDisabled,  \* #carregar-planilha disabled
    secaoProgresso,    \* #secao-progresso style.display
    secaoResultados,   \* #secao-resultados style.display
    log,               \* the entries the last handler appended to #log-processamento
    container,         \* #resultados-container content
    relatorio,         \* << the report the last handler built >>, << >> if none
    alerta,            \* text of the alert() the last handler raised, "" if none
    aceitos,           \* 'Iniciando' entries written to the log so far
    enviados,          \* requests sent to /api/processar-documentos so far
    emVoo,             \* the requests not settled yet: [run, fase, urls, planilha]
                       \* and emitidas, the log entries the run has written
    cargas,            \* requests sent to /api/carregar-planilha so far
    cargasEmVoo,       \* the loads not settled yet
    origem,            \* the request this.resultados came from: [run, urls]
    ultimaCarga        \* the load that settled last and whether it succeeded

vars ==
    << planilhaData, resultados, csvUrl, documentUrls, iniciarDisabled,
       iniciarLabel, carregarDisabled, secaoProgresso,
       secaoResultados, log, container, relatorio, alerta, aceitos, enviados,
       emVoo, cargas, cargasEmVoo, origem, ultimaCarga >>

\* constructor(); init(): empty fields, then updateUI() disables the start button.
Init ==
    /\ planilhaData = Null
    /\ resultados = << >>
    /\ csvUrl = << >>
    /\ documentUrls = << >>
    /\ iniciarDisabled = updateUI(Null, << >>)
    /\ iniciarLabel = "idle"
    /\ carregarDisabled = FALSE
    /\ secaoProgresso = "none"
    /\ secaoResultados = "none"
    /\ log = << >>
    /\ container = [ stats |-> << >>, cards |-> << >> ]
    /\ relatorio = << >>
    /\ alerta = ""
    /\ aceitos = 0
    /\ enviados = 0
    /\ emVoo = {}
    /\ cargas = 0
    /\ cargasEmVoo = {}
    /\ origem = [ run |-> 0, urls |-> << >> ]
    /\ ultimaCarga = [ id |-> 0, ok |-> FALSE ]

\* ----------------------------------------------------------------- actions
\* 'input' on #csv-url: updateUI().
InputCsvUrl(t) ==
    /\ t # csvUrl
    /\ csvUrl' = t
    /\ iniciarDisabled' = updateUI(planilhaData, documentUrls)
    /\ alerta' = ""
    /\ relatorio' = << >>
    /\ log' = << >>
    /\ UNCHANGED << planilhaData, resultados, documentUrls, iniciarLabel,
                    carregarDisabled, secaoProgresso,
                    secaoResultados, container, enviados, emVoo, cargas,
                    cargasEmVoo, origem, ultimaCarga, aceitos >>

\* 'input' on #document-urls: updateUI().
InputDocumentUrls(t) ==
    /\ t # documentUrls
    /\ documentUrls' = t
    /\ iniciarDisabled' = updateUI(planilhaData, t)
    /\ alerta' = ""
    /\ relatorio' = << >>
    /\ log' = << >>
    /\ UNCHANGED << planilhaData, resultados, csvUrl, iniciarLabel,
                    carregarDisabled, secaoProgresso,
                    secaoResultados, container, enviados, emVoo, cargas,
                    cargasEmVoo, origem, ultimaCarga, aceitos >>

\* carregarPlanilha() with a blank #csv-url: it returns after showing its
\* message in #status-planilha (which the state does not hold); no request.
CarregarPlanilhaSemUrl ==
    /\ ~carregarDisabled
    /\ Trim(csvUrl) = << >>
    /\ alerta' = ""
    /\ relatorio' = << >>
    /\ log' = << >>
    /\ UNCHANGED << planilhaData, resultados, csvUrl, documentUrls,
                    iniciarDisabled, iniciarLabel, carregarDisabled,
                    secaoProgresso, secaoResultados, container, enviados,
                    emVoo, cargas, cargasEmVoo, origem, ultimaCarga,
                    aceitos >>

\* carregarPlanilha() sending its request with the load button left enabled.
CarregarPlanilhaSemDesabilitar ==
    /\ ~carregarDisabled
    /\ Trim(csvUrl) # << >>
    /\ cargas < MaxLoads
    /\ carregarDisabled' = FALSE
    /\ cargas' = cargas + 1
    /\ cargasEmVoo' = cargasEmVoo \cup { cargas + 1 }
    /\ alerta' = ""
    /\ relatorio' = << >>
    /\ log' = << >>
    /\ UNCHANGED << planilhaData, resultados, csvUrl, documentUrls,
                    iniciarDisabled, iniciarLabel, secaoProgresso,
                    secaoResultados, container, enviados, emVoo, origem,
                    ultimaCarga, aceitos >>

\* carregarPlanilha() up to its await: the button is disabled and the request
\* to /api/carregar-planilha is sent.
CarregarPlanilha ==
    /\ ~carregarDisabled
    /\ Trim(csvUrl) # << >>
    /\ cargas < MaxLoads
    /\ carregarDisabled' = TRUE
    /\ cargas' = cargas + 1
    /\ cargasEmVoo' = cargasEmVoo \cup { cargas + 1 }
    /\ alerta' = ""
    /\ relatorio' = << >>
    /\ log' = << >>
    /\ UNCHANGED << planilhaData, resultados, csvUrl, documentUrls,
                    iniciarDisabled, iniciarLabel, secaoProgresso,
                    secaoResultados, container, enviados, emVoo, origem,
                    ultimaCarga, aceitos >>

\* carregarPlanilha() after its awaits, data.success: the dataset of this load
\* is kept; finally re-enables the load button and calls updateUI().
CargaSucesso(c) ==
    /\ c \in cargasEmVoo
    /\ planilhaData' = c
    /\ carregarDisabled' = FALSE
    /\ iniciarDisabled' = updateUI(c, documentUrls)
    /\ cargasEmVoo' = cargasEmVoo \ { c }
    /\ ultimaCarga' = [ id |-> c, ok |-> TRUE ]
    /\ alerta' = ""
    /\ relatorio' = << >>
    /\ log' = << >>
    /\ UNCHANGED << resultados, csvUrl, documentUrls, iniciarLabel,
                    secaoProgresso, secaoResultados, container, enviados,
                    emVoo, cargas, origem, aceitos >>

\* The catch block of carregarPlanilha without its reset of this.planilhaData.
PlanilhaAposFalhaMantem(atual) == atual

\* What the catch block of carregarPlanilha leaves in this.planilhaData.
PlanilhaAposFalha(atual) == Null

\* carregarPlanilha() after its awaits, the request threw or data.success is
\* false: catch, then finally.
CargaFalha(c) ==
    /\ c \in cargasEmVoo
    /\ planilhaData' = PlanilhaAposFalha(planilhaData)
    /\ carregarDisabled' = FALSE
    /\ iniciarDisabled' = updateUI(planilhaData', documentUrls)
    /\ cargasEmVoo' = cargasEmVoo \ { c }
    /\ ultimaCarga' = [ id |-> c, ok |-> FALSE ]
    /\ alerta' = ""
    /\ relatorio' = << >>
    /\ log' = << >>
    /\ UNCHANGED << resultados, csvUrl, documentUrls, iniciarLabel,
                    secaoProgresso, secaoResultados, container, enviados,
                    emVoo, cargas, origem, aceitos >>

\* The early returns with the upper limit compared one too high.
RejeicaoUmAMais(n) ==
    IF n = 0 THEN AlertaVazio
    ELSE IF n > MaxDocumentos + 1 THEN AlertaMaximo
    ELSE ""

\* The two early returns of iniciarValidacao(): the alert raised for a list of
\* n URLs, "" when the list is accepted.
Rejeicao(n) ==
    IF n = 0 THEN AlertaVazio
    ELSE IF n > MaxDocumentos THEN AlertaMaximo
    ELSE ""

\* iniciarValidacao() returning early: the alert, nothing else.
IniciarValidacaoRejeitada ==
    /\ ~iniciarDisabled
    /\ Rejeicao(Len(parseDocumentUrls(documentUrls))) # ""
    /\ alerta' = Rejeicao(Len(parseDocumentUrls(documentUrls)))
    /\ relatorio' = << >>
    /\ log' = << >>
    /\ UNCHANGED << planilhaData, resultados, csvUrl, documentUrls,
                    iniciarDisabled, iniciarLabel, carregarDisabled,
                    secaoProgresso, secaoResultados,
                    container, enviados, emVoo, cargas, cargasEmVoo, origem,
                    ultimaCarga, aceitos >>

\* The entries before the first await without updateProgress(0, ...).
LogInicioSemIniciando(lg, run) ==
    addLog(lg, run, "Enviando", TipoProgresso(20))

\* The log entries iniciarValidacao() writes before its first await:
\* updateProgress(0, 'Iniciando validacao...') and
\* updateProgress(20, 'Enviando documentos para processamento...').
LogInicio(lg, run) ==
    addLog(addLog(lg, run, "Iniciando", TipoProgresso(0)),
           run, "Enviando", TipoProgresso(20))

\* iniciarValidacao() accepted, up to its first await: the progress section
\* replaces the results section, the button is disabled and the request to
\* /api/processar-documentos is sent with the URLs and this.planilhaData.
IniciarValidacao ==
    /\ ~iniciarDisabled
    /\ Rejeicao(Len(parseDocumentUrls(documentUrls))) = ""
    /\ enviados < MaxRuns
    /\ secaoProgresso' = "block"
    /\ secaoResultados' = "none"
    /\ log' = LogInicio(<< >>, enviados + 1)
    /\ aceitos' = aceitos + 1
    /\ iniciarDisabled' = TRUE
    /\ iniciarLabel' = "processando"
    /\ enviados' = enviados + 1
    /\ emVoo' = emVoo \cup
           { [ run |-> enviados + 1, fase |-> "fetch",
               urls |-> parseDocumentUrls(documentUrls),
               planilha |-> planilhaData,
               emitidas |-> LogInicio(<< >>, enviados + 1) ] }
    /\ alerta' = ""
    /\ relatorio' = << >>
    /\ UNCHANGED << planilhaData, resultados, csvUrl, documentUrls,
                    carregarDisabled, container, cargas,
                    cargasEmVoo, origem, ultimaCarga >>

\* iniciarValidacao() resumed after `await fetch`: updateProgress(60, ...),
\* then it waits for response.json().
FetchResolve(r) ==
    /\ r \in emVoo
    /\ r.fase = "fetch"
    /\ log' = addLog(<< >>, r.run, "Processando", TipoProgresso(60))
    /\ emVoo' = (emVoo \ { r }) \cup
                    { [ r EXCEPT !.fase = "json", !.emitidas = @ \o log' ] }
    /\ alerta' = ""
    /\ relatorio' = << >>
    /\ UNCHANGED << planilhaData, resultados, csvUrl, documentUrls,
                    iniciarDisabled, iniciarLabel, carregarDisabled,
                    secaoProgresso, secaoResultados,
                    container, enviados, cargas, cargasEmVoo, origem,
                    ultimaCarga, aceitos >>

\* The new results appended to the ones already held.
ArmazenarAcumulando(atual, novos) == atual \o novos

\* this.resultados = data.resultados
Armazenar(atual, novos) == novos

\* iniciarValidacao() resumed after `await response.json()`, data.success:
\* updateProgress(100, ...), the results are stored and shown; finally restores
\* the button and calls updateUI().
RunSucesso(r, d) ==
    /\ r \in emVoo
    /\ r.fase = "json"
    /\ log' = addLog(<< >>, r.run, "Concluido", TipoProgresso(100))
    /\ resultados' = Armazenar(resultados, processarDocumentos(r.urls, d))
    /\ origem' = [ run |-> r.run, urls |-> r.urls ]
    /\ secaoResultados' = "block"
    /\ container' = exibirResultados(resultados')
    /\ iniciarLabel' = "idle"
    /\ iniciarDisabled' = updateUI(planilhaData, documentUrls)
    /\ emVoo' = emVoo \ { r }
    /\ alerta' = ""
    /\ relatorio' = << >>
    /\ UNCHANGED << planilhaData, csvUrl, documentUrls, carregarDisabled,
                    secaoProgresso, enviados, cargas,
                    cargasEmVoo, ultimaCarga, aceitos >>

\* The catch and finally blocks of iniciarValidacao(), with the failed request
\* sent once more.
RunFalhaReenvia(r) ==
    /\ r \in emVoo
    /\ log' = addLog(addLog(<< >>, r.run, "Erro", TipoProgresso(0)),
                     r.run, "Erro", "danger")
    /\ iniciarLabel' = "idle"
    /\ iniciarDisabled' = updateUI(planilhaData, documentUrls)
    /\ enviados' = enviados + 1
    /\ emVoo' = (emVoo \ { r }) \cup
                    { [ r EXCEPT !.run = enviados + 1, !.fase = "fetch",
                                 !.emitidas = << >> ] }
    /\ alerta' = ""
    /\ relatorio' = << >>
    /\ UNCHANGED << planilhaData, resultados, csvUrl, documentUrls,
                    carregarDisabled, secaoProgresso,
                    secaoResultados, container, cargas, cargasEmVoo, origem,
                    ultimaCarga, aceitos >>

\* iniciarValidacao() failing with no finally block: the error is logged but
\* the button keeps its processing label and stays disabled.
RunFalhaSemFinally(r) ==
    /\ r \in emVoo
    /\ log' = addLog(addLog(<< >>, r.run, "Erro", TipoProgresso(0)),
                     r.run, "Erro", "danger")
    /\ emVoo' = emVoo \ { r }
    /\ alerta' = ""
    /\ relatorio' = << >>
    /\ UNCHANGED << planilhaData, resultados, csvUrl, documentUrls,
                    iniciarDisabled, iniciarLabel, carregarDisabled,
                    secaoProgresso, secaoResultados, container, enviados,
                    cargas, cargasEmVoo, origem, ultimaCarga, aceitos >>

\* iniciarValidacao() resumed with a failure: fetch rejected, response.json()
\* rejected, or data.success false.  catch: updateProgress(0, error) and
\* addLog(error, 'danger'); finally restores the button and calls updateUI().
RunFalha(r) ==
    /\ r \in emVoo
    /\ log' = addLog(addLog(<< >>, r.run, "Erro", TipoProgresso(0)),
                     r.run, "Erro", "danger")
    /\ iniciarLabel' = "idle"
    /\ iniciarDisabled' = updateUI(planilhaData, documentUrls)
    /\ emVoo' = emVoo \ { r }
    /\ alerta' = ""
    /\ relatorio' = << >>
    /\ UNCHANGED << planilhaData, resultados, csvUrl, documentUrls,
                    carregarDisabled, secaoProgresso,
                    secaoResultados, container, enviados, cargas,
                    cargasEmVoo, origem, ultimaCarga, aceitos >>

\* downloadRelatorio() with nothing to export: the alert, no report.
DownloadRelatorioVazio ==
    /\ Len(resultados) = 0
    /\ alerta' = AlertaSemResultado
    /\ relatorio' = << >>
    /\ log' = << >>
    /\ UNCHANGED << planilhaData, resultados, csvUrl, documentUrls,
                    iniciarDisabled, iniciarLabel, carregarDisabled,
                    secaoProgresso, secaoResultados,
                    container, enviados, emVoo, cargas, cargasEmVoo, origem,
                    ultimaCarga, aceitos >>

\* downloadRelatorio() building the report without looking at the length of
\* this.resultados.
DownloadRelatorioSemGuarda ==
    /\ relatorio' = << Relatorio(resultados) >>
    /\ alerta' = ""
    /\ log' = << >>
    /\ UNCHANGED << planilhaData, resultados, csvUrl, documentUrls,
                    iniciarDisabled, iniciarLabel, carregarDisabled,
                    secaoProgresso, secaoResultados,
                    container, enviados, emVoo, cargas, cargasEmVoo, origem,
                    ultimaCarga, aceitos >>

\* downloadRelatorio(): the report is built from this.resultados.
DownloadRelatorio ==
    /\ Len(resultados) > 0
    /\ relatorio' = << Relatorio(resultados) >>
    /\ alerta' = ""
    /\ log' = << >>
    /\ UNCHANGED << planilhaData, resultados, csvUrl, documentUrls,
                    iniciarDisabled, iniciarLabel, carregarDisabled,
                    secaoProgresso, secaoResultados,
                    container, enviados, emVoo, cargas, cargasEmVoo, origem,
                    ultimaCarga, aceitos >>

Next ==
    \/ \E t \in CsvTexts : InputCsvUrl(t)
    \/ \E t \in DocumentTexts : InputDocumentUrls(t)
    \/ CarregarPlanilhaSemUrl
    \/ CarregarPlanilha
    \/ \E c \in cargasEmVoo : CargaSucesso(c)
    \/ \E c \in cargasEmVoo : CargaFalha(c)
    \/ IniciarValidacaoRejeitada
    \/ IniciarValidacao
    \/ \E r \in emVoo : FetchResolve(r)
    \/ \E r \in emVoo : \E d \in DesfechosDe(Len(r.urls)) : RunSucesso(r, d)
    \/ \E r \in emVoo : RunFalha(r)
    \/ DownloadRelatorioVazio
    \/ DownloadRelatorio

Spec == Init /\ [][Next]_vars

\* ------------------------------------------------------------------ claims
\* The messages of a sequence of log entries.
Mensagens(entries) == [ i \in 1..Len(entries) |-> entries[i].message ]

\* C1: an invocation of iniciarValidacao whose list parses to zero entries is
\* answered with the 'insira pelo menos uma URL' alert, one whose list parses to
\* more than three with the 'Maximo de 3' alert, the two alerts differ, and in
\* neither case is a request sent or a run started; a request is sent only for
\* a list of one to three entries, and then without an alert.
C1_RejeitaForaDoLimite ==
    [][ LET n == Len(parseDocumentUrls(documentUrls))
        IN /\ AlertaVazio # AlertaMaximo
           /\ (alerta' = AlertaVazio) => (n = 0)
           /\ (alerta' = AlertaMaximo) => (n > MaxDocumentos)
           /\ (alerta' \in { AlertaVazio, AlertaMaximo })
                 => (enviados' = enviados /\ emVoo' = emVoo /\ log' = << >>)
           /\ (\/ enviados' # enviados
               \/ aceitos' # aceitos
               \/ \E q \in emVoo' : \A r \in emVoo : r.run # q.run)
                 => (n >= 1 /\ n <= MaxDocumentos /\ alerta' = "") ]_vars

\* A list of four URLs has just been rejected after an earlier run was accepted.
C1_Witness ==
    /\ alerta = AlertaMaximo
    /\ Len(parseDocumentUrls(documentUrls)) = MaxDocumentos + 1
    /\ enviados = 1

\* C2: in every report downloadRelatorio builds, validos + invalidos + erros
\* equals total_documentos.
C2_ContagemFecha ==
    \A i \in 1..Len(relatorio) :
        relatorio[i].validos + relatorio[i].invalidos + relatorio[i].erros
            = relatorio[i].total_documentos

\* A report of three documents, one of each status.
C2_Witness ==
    /\ Len(relatorio) = 1
    /\ relatorio[1].validos = 1
    /\ relatorio[1].invalidos = 1
    /\ relatorio[1].erros = 1

\* C3: every result the session holds, every card shown and every result in a
\* report carries exactly one of the statuses valido, invalido, erro.
C3_StatusConhecido ==
    /\ \A i \in 1..Len(resultados) : resultados[i].status \in Status
    /\ Len(container.cards) = Len(resultados)
    /\ \A i \in 1..Len(container.cards) :
          /\ container.cards[i].statusClass \in Status
          /\ container.cards[i].statusClass = resultados[i].status
    /\ \A i \in 1..Len(relatorio) :
          \A k \in 1..Len(relatorio[i].resultados) :
              relatorio[i].resultados[k].status \in Status

\* Three results are held and shown, an erro among them, and a report of them
\* has been built.
C3_Witness ==
    /\ Len(resultados) = 3
    /\ \E i \in 1..3 : container.cards[i].statusClass = "erro"
    /\ Len(relatorio) = 1

\* C4: the results held after a run of n locators completed successfully, and
\* any report built from them, count n documents, 1 <= n <= 3.
C4_TotalIgualLote ==
    /\ (origem.run # 0) =>
          /\ Len(resultados) = Len(origem.urls)
          /\ Len(origem.urls) >= 1
          /\ Len(origem.urls) <= MaxDocumentos
    /\ \A i \in 1..Len(relatorio) :
          relatorio[i].total_documentos = Len(origem.urls)

\* The second run, of three locators, completed after a first run of one
\* locator had completed, and a report was built.
C4_Witness ==
    /\ Len(relatorio) = 1
    /\ relatorio[1].total_documentos = 3
    /\ origem.run = 2
    /\ emVoo = {}

\* C5: the i-th result held, the i-th card shown and the i-th result of a
\* report belong to the i-th locator of the run they came from.
C5_OrdemDeSubmissao ==
    /\ (origem.run # 0) =>
          /\ Len(resultados) = Len(origem.urls)
          /\ Len(container.cards) = Len(origem.urls)
          /\ \A i \in 1..Len(origem.urls) :
                /\ resultados[i].url = origem.urls[i]
                /\ container.cards[i].url = origem.urls[i]
                /\ container.cards[i].numero = i
    /\ \A j \in 1..Len(relatorio) :
          /\ Len(relatorio[j].resultados) = Len(origem.urls)
          /\ \A i \in 1..Len(origem.urls) :
                relatorio[j].resultados[i].url = origem.urls[i]

\* The locators b, a, c were submitted in that order and a report was built.
C5_Witness ==
    /\ origem.urls = << << "b" >>, << "a" >>, << "c" >> >>
    /\ Len(relatorio) = 1
    /\ Len(container.cards) = 3

\* C6: once a new run has been accepted, the results the session holds (and
\* downloadRelatorio exports) are never those of an earlier run: held results
\* come from the run accepted last.
C6_SessaoNova ==
    (Len(resultados) > 0) => (origem.run = aceitos)

\* C7: a result is valido exactly when its six validation flags are all true,
\* for the results held, the cards shown (a valido badge exactly when the six
\* items read Valido) and the results in a report.
C7_ValidoSseSeisFlags ==
    /\ \A i \in 1..Len(resultados) :
          (resultados[i].status = "valido")
              <=> (resultados[i].validacoes = ValidacoesSet)
    /\ \A i \in 1..Len(container.cards) :
          (container.cards[i].statusClass = "valido")
              <=> /\ Len(container.cards[i].itens) = Len(Validacoes)
                  /\ \A k \in 1..Len(container.cards[i].itens) :
                        container.cards[i].itens[k].text = "Valido"
    /\ \A j \in 1..Len(relatorio) :
          \A i \in 1..Len(relatorio[j].resultados) :
              (relatorio[j].resultados[i].status = "valido")
                  <=> (relatorio[j].resultados[i].validacoes = ValidacoesSet)

\* A valido card and an invalido card with five of the six items Valido are
\* shown together.
C7_Witness ==
    /\ \E i \in 1..Len(container.cards) :
          container.cards[i].statusClass = "valido"
    /\ \E i \in 1..Len(container.cards) :
          /\ container.cards[i].statusClass = "invalido"
          /\ Cardinality({ k \in 1..Len(container.cards[i].itens) :
                             container.cards[i].itens[k].text = "Valido" }) = 5

\* The runs of emVoo that the step settles.
Encerrados == { r \in emVoo : \A q \in emVoo' : q.run # r.run }

\* The entries strictly between the first and the last of a run's entries.
Intermediarias(entries) == SubSeq(entries, 2, Len(entries) - 1)

C9_PlanilhaDaUltimaCarga ==
    /\ [](planilhaData = IF ultimaCarga.ok THEN ultimaCarga.id ELSE Null)
    /\ [][ /\ \A q \in emVoo' :
                (q.run > enviados)
                   => /\ ultimaCarga.ok
                      /\ q.planilha = ultimaCarga.id
                      /\ q.planilha # Null
           /\ \A r \in emVoo : \A q \in emVoo' :
                (q.run = r.run) => (q.planilha = r.planilha) ]_vars

\* A request carrying the dataset of load 1 is in flight after load 2 settled.
C9_Witness ==
    /\ ultimaCarga.id = 2
    /\ \E r \in emVoo : r.planilha = 1

\* C10: as many processing requests have been sent as runs were accepted, and
\* no two requests in flight belong to the same run.
C10_UmPedidoPorRun ==
    /\ enviados = aceitos
    /\ \A r \in emVoo : r.run >= 1 /\ r.run <= aceitos
    /\ \A r \in emVoo : \A q \in emVoo : (r.run = q.run) => (r = q)

\* Two runs were accepted and both failed.
C10_Witness ==
    /\ aceitos = 2
    /\ emVoo = {}
    /\ origem.run = 0
    /\ Mensagens(log) = << "Erro", "Erro" >>

\* C11: whenever the page waits for an event with the start button enabled, a
\* spreadsheet is loaded and the #document-urls text is not blank.
C11_BotaoHabilitadoComDados ==
    (~iniciarDisabled) => (planilhaData # Null /\ Trim(documentUrls) # << >>)

\* The button is enabled again after a run settled and a second load replaced
\* the dataset.
C11_Witness ==
    /\ ~iniciarDisabled
    /\ planilhaData = 2
    /\ aceitos = 1
    /\ emVoo = {}

\* C12: while a run is in flight the start button stays disabled, so at most
\* one processing request is outstanding.
C12_UmaRunPorVez ==
    /\ Cardinality(emVoo) <= 1
    /\ (emVoo # {}) => iniciarDisabled

\* C13: a displayed card carries the error-detail block, and none of the six
\* validation items, exactly when its badge is classified erro.
C13_ErroSseBlocoDeErro ==
    \A i \in 1..Len(container.cards) :
        LET card == container.cards[i]
        IN  /\ (card.statusClass = "erro") <=> (card.itens = << >>)
            /\ (card.statusClass = "erro") <=> (card.erro # "")
            /\ (card.statusClass # "erro") => (Len(card.itens) = Len(Validacoes))

\* A failed document, an invalid one and a valid one are displayed together.
C13_Witness ==
    /\ Len(container.cards) = 3
    /\ { container.cards[i].statusClass : i \in 1..3 } = Status
    /\ \E i \in 1..3 : container.cards[i].itens = << >>

\* C14: the step that settles the last outstanding request never replaces the
\* results of a later-started run by those of an earlier-started one.
C14_UltimaRunIniciada ==
    [][ (emVoo' = {}) => (origem'.run >= origem.run) ]_vars

\* C15: only the newest load can be in flight, the load button is disabled
\* exactly while it is, and the dataset held is never that of a load older than
\* the last one settled.
C15_UmaCargaPorVez ==
    /\ Cardinality(cargasEmVoo) <= 1
    /\ carregarDisabled <=> (cargasEmVoo # {})
    /\ \A c \in cargasEmVoo : c = cargas /\ c > ultimaCarga.id
    /\ (planilhaData # Null) => (planilhaData = ultimaCarga.id)

\* The second load is in flight, the button disabled, while the session holds
\* the first load's dataset and a run is in flight and input events happened.
C15_Witness ==
    /\ cargasEmVoo = { 2 }
    /\ carregarDisabled
    /\ planilhaData = 1
    /\ emVoo # {}
    /\ ~iniciarDisabled

\* C16: the step in which a run settles, by success or by failure, restores
\* the idle label and recomputes the button from the dataset and the URL text;
\* the processing label is shown only while a request is outstanding.
C16_VoltaAoOcioso ==
    /\ [](iniciarLabel = "processando" => emVoo # {})
    /\ [][ (Encerrados # {}) =>
             /\ iniciarLabel' = "idle"
             /\ iniciarDisabled' = updateUI(planilhaData', documentUrls') ]_vars

\* A run has just failed: the label is idle and the button enabled again.
C16_Witness ==
    /\ aceitos = 1
    /\ emVoo = {}
    /\ Mensagens(log) = << "Erro", "Erro" >>
    /\ iniciarLabel = "idle"
    /\ ~iniciarDisabled

\* C17: a report produced holds at least one document and comes from a run
\* that succeeded; a download with no results held produces the alert and no
\* report.
C17_SemRelatorioVazio ==
    /\ (relatorio # << >>) =>
          /\ relatorio[1].total_documentos >= 1
          /\ origem.run >= 1
          /\ relatorio[1].resultados = resultados
    /\ (alerta = AlertaSemResultado) => (relatorio = << >> /\ Len(resultados) = 0)

\* A download was attempted after the only run failed: alert, no report.
C17_Witness ==
    /\ alerta = AlertaSemResultado
    /\ aceitos = 1
    /\ emVoo = {}
    /\ origem.run = 0

====
